---- MODULE Spec2Model ----
(***************************************************************************)
(* Model of the browser-side scripts of the attendance dashboard:          *)
(* common.js (fetch wrappers, toasts), users.js (search / sort / paging),  *)
(* attendance.js (attendance table) and register.js (register form and     *)
(* dashboard).  Text is modelled as a sequence of one-character strings so *)
(* that toLowerCase, trim, includes and the < comparison are computed.     *)
(* A page load initialises one view; the views share nothing but the toast *)
(* container.  Servers answer within the contract of the endpoints (arrays *)
(* of records), or fail, or answer with something that is no array.        *)
(***************************************************************************)
EXTENDS Integers, Sequences, FiniteSets, TLC

\* ------------------------------------------------------------------ bounds
MaxUsers == 25
MaxShort == 2
MaxQLen == 2
MaxToasts == 1
MaxLoads == 3
MaxRows == 2

\* ------------------------------------------------------- program constants
perPage == 12

\* undefined, where text is expected and where a JSON property is expected
Undef == <<"undefined">>
NoValue == "undefined"

Max(a, b) == IF a >= b THEN a ELSE b
Min(a, b) == IF a <= b THEN a ELSE b

\* ---------------------------------------------------------------- text
\* UTF-16 code unit of a character (what the JS < on strings compares)
Code(c) ==
  CASE c = " " -> 32
    [] c = "0" -> 48 [] c = "1" -> 49 [] c = "2" -> 50 [] c = "3" -> 51
    [] c = "4" -> 52 [] c = "5" -> 53 [] c = "6" -> 54 [] c = "7" -> 55
    [] c = "8" -> 56 [] c = "9" -> 57
    [] c = "A" -> 65 [] c = "B" -> 66
    [] c = "a" -> 97 [] c = "b" -> 98

LowerCh(c) == CASE c = "A" -> "a" [] c = "B" -> "b" [] OTHER -> c

toLowerCase(s) == [i \in 1..Len(s) |-> LowerCh(s[i])]

DigitCh(d) == CASE d = 0 -> "0" [] d = 1 -> "1" [] d = 2 -> "2" [] d = 3 -> "3"
                [] d = 4 -> "4" [] d = 5 -> "5" [] d = 6 -> "6" [] d = 7 -> "7"
                [] d = 8 -> "8" [] d = 9 -> "9"

\* String(n) for a non-negative integer
RECURSIVE String(_)
String(n) == IF n < 10 THEN <<DigitCh(n)>> ELSE String(n \div 10) \o <<DigitCh(n % 10)>>

\* h.startsWith(n, i) with i counted from 1
StartsAt(h, n, i) == /\ i + Len(n) - 1 <= Len(h)
                     /\ \A j \in 1..Len(n) : h[i + j - 1] = n[j]

\* h.includes(n): scan the start positions from the left
RECURSIVE includesFrom(_, _, _)
includesFrom(h, n, i) ==
  IF i + Len(n) - 1 > Len(h) THEN FALSE
  ELSE IF StartsAt(h, n, i) THEN TRUE
  ELSE includesFrom(h, n, i + 1)

includes(h, n) == includesFrom(h, n, 1)

\* a < b on two strings: lexicographic on code units
RECURSIVE StrLess(_, _)
StrLess(a, b) ==
  IF b = <<>> THEN FALSE
  ELSE IF a = <<>> THEN TRUE
  ELSE IF Code(Head(a)) < Code(Head(b)) THEN TRUE
  ELSE IF Code(Head(a)) > Code(Head(b)) THEN FALSE
  ELSE StrLess(Tail(a), Tail(b))

RECURSIVE trimLeft(_)
trimLeft(s) == IF s # <<>> /\ Head(s) = " " THEN trimLeft(Tail(s)) ELSE s

RECURSIVE trimRight(_)
trimRight(s) == IF s # <<>> /\ s[Len(s)] = " " THEN trimRight(SubSeq(s, 1, Len(s) - 1)) ELSE s

trim(s) == trimRight(trimLeft(s))

\* all sequences over S of length at most n
RECURSIVE SeqsUpTo(_, _)
SeqsUpTo(S, n) ==
  IF n = 0 THEN {<<>>}
  ELSE LET P == SeqsUpTo(S, n - 1)
       IN P \cup {Append(p, x) : p \in {r \in P : Len(r) = n - 1}, x \in S}

\* ---------------------------------------------------------------- users
\* a user record of GET /api/users; a missing email / proxy / salary is Undef
User(id, name, email, proxy, salary) ==
  [user_id |-> id, name |-> name, email |-> email, proxy |-> proxy, salary |-> salary]

UserPool == {
  User(1,  <<"A", "b">>, Undef,   Undef,   Undef),
  User(12, <<"b">>,      <<"B">>, <<"A">>, <<"1">>),
  User(1,  <<"B", "a">>, <<>>,    <<"b">>, <<"0">>) }

NamePool == << <<"b", "A">>, <<"A">>, <<"a", "b">>, <<"B">>, <<"a">> >>

\* a long list: ids out of order, names cycling through NamePool
LongUser(i) ==
  User((i * 7) % 26, NamePool[(i % 5) + 1],
       IF i % 3 = 0 THEN <<"B">> ELSE Undef,
       IF i % 4 = 0 THEN <<"1", "a">> ELSE Undef, Undef)

LongList(n) == [i \in 1..n |-> LongUser(i)]

LongSizes == {perPage, perPage + 1, 2 * perPage, MaxUsers}

UserLists == SeqsUpTo(UserPool, MaxShort) \cup {LongList(n) : n \in LongSizes}

SearchStrings == SeqsUpTo({"A", "b", "1"}, MaxQLen)

SortKeys == {"user_id", "name"}

\* (u.email || ''): undefined and the empty string both give ''
OrEmpty(v) == IF v = Undef THEN <<>> ELSE v

\* the text a user is searched in
Haystack(u) == String(u.user_id) \o u.name \o OrEmpty(u.email) \o OrEmpty(u.proxy)

\* a filter that lower-cases the search string but not the user's text
MatchesCaseSensitive(u, qv) ==
  LET s == toLowerCase(qv)
  IN IF s = <<>> THEN TRUE ELSE includes(Haystack(u), s)

\* the filter callback of render
Matches(u, qv) ==
  LET s == toLowerCase(qv)
  IN IF s = <<>> THEN TRUE ELSE includes(toLowerCase(Haystack(u)), s)

RECURSIVE filter(_, _)
filter(us, qv) ==
  IF us = <<>> THEN <<>>
  ELSE IF Matches(Head(us), qv) THEN <<Head(us)>> \o filter(Tail(us), qv)
  ELSE filter(Tail(us), qv)

\* a[k] < b[k] for the two sortable columns
KeyLess(a, b, k) == IF k = "user_id" THEN a.user_id < b.user_id ELSE StrLess(a.name, b.name)

cmp(a, b, k, dir) ==
  LET d == IF dir = "asc" THEN 1 ELSE -1
  IN IF KeyLess(a, b, k) THEN -1 * d
     ELSE IF KeyLess(b, a, k) THEN 1 * d
     ELSE 0

\* Array.prototype.sort is stable: x goes after every element not greater than it
RECURSIVE insertSorted(_, _, _, _)
insertSorted(s, x, k, dir) ==
  IF s = <<>> THEN <<x>>
  ELSE IF cmp(s[Len(s)], x, k, dir) > 0
       THEN Append(insertSorted(SubSeq(s, 1, Len(s) - 1), x, k, dir), s[Len(s)])
       ELSE Append(s, x)

RECURSIVE sort(_, _, _)
sort(s, k, dir) ==
  IF s = <<>> THEN <<>>
  ELSE insertSorted(sort(SubSeq(s, 1, Len(s) - 1), k, dir), s[Len(s)], k, dir)

\* Math.max(1, Math.ceil(n / perPage))
Pages(n) == Max(1, (n + perPage - 1) \div perPage)

\* a clamp that forgets the upper end
ClampPageLow(p, pages) == Max(1, p)

\* Math.min(pages, Math.max(1, page))
ClampPage(p, pages) == Min(pages, Max(1, p))

\* a slice that starts one row late
SliceLate(f, p) == SubSeq(f, (p - 1) * perPage + 2, Min(p * perPage, Len(f)))

\* filtered.slice((page-1)*perPage, page*perPage)
Slice(f, p) == SubSeq(f, (p - 1) * perPage + 1, Min(p * perPage, Len(f)))

\* one table row: (x || '—') for email, proxy and salary
OrDash(v) == IF v = Undef \/ v = <<>> \/ v = <<"0">> THEN <<"-">> ELSE v

Row(u) == <<String(u.user_id), u.name, OrDash(u.email), OrDash(u.proxy), OrDash(u.salary)>>

\* ---------------------------------------------------------------- fetch
NoObj == [status |-> NoValue, message |-> NoValue, timestamp |-> NoValue]
JArray(a) == [t |-> "array", arr |-> a, obj |-> NoObj, text |-> "[..]"]
JObject(o) == [t |-> "object", arr |-> <<>>, obj |-> o, text |-> "{..}"]
JNull == [t |-> "null", arr |-> <<>>, obj |-> NoObj, text |-> "null"]
JText(s) == [t |-> "text", arr |-> <<>>, obj |-> NoObj, text |-> s]
Malformed == [t |-> "malformed", arr |-> <<>>, obj |-> NoObj, text |-> "<html>"]

\* what fetch() settles with: a rejection (net = FALSE) or a Response
NetError == [net |-> FALSE, ok |-> FALSE, status |-> "", ct |-> "", body |-> JText("")]
Http(ok, status, ct, body) == [net |-> TRUE, ok |-> ok, status |-> status, ct |-> ct, body |-> body]

Resolve(v) == [ok |-> TRUE, val |-> v, msg |-> ""]
Reject(m) == [ok |-> FALSE, val |-> JNull, msg |-> m]

\* ct.includes('application/json')
ctIsJson(ct) == ct \in {"application/json", "application/json; charset=utf-8"}

\* res.json() / res.text() chosen by the content type
Decode(res) ==
  IF ctIsJson(res.ct)
  THEN IF res.body.t = "malformed" THEN Reject("Unexpected token <") ELSE Resolve(res.body)
  ELSE Resolve(JText(res.body.text))

apiGET(res) ==
  IF ~res.net THEN Reject("Failed to fetch")
  ELSE IF ~res.ok THEN Reject(res.status)
  ELSE Decode(res)

\* the error carries the body text when there is one, else the status line
apiPOST(res) ==
  IF ~res.net THEN Reject("Failed to fetch")
  ELSE IF ~res.ok THEN Reject(IF res.body.text # "" THEN res.body.text ELSE res.status)
  ELSE Decode(res)

\* the ways a request can fail or answer with something that is no JSON array
BadResponses == {
  NetError,
  Http(FALSE, "500 Internal Server Error", "text/html", JText("boom")),
  Http(FALSE, "404 Not Found", "", JText("")),
  Http(TRUE, "200 OK", "application/json", Malformed),
  Http(TRUE, "200 OK", "text/html", JText("<html>")),
  Http(TRUE, "200 OK", "application/json; charset=utf-8", JNull),
  Http(TRUE, "200 OK", "application/json", JObject(NoObj)) }

OkArray(a) == Http(TRUE, "200 OK", "application/json", JArray(a))

\* ---------------------------------------------------------------- state
VARIABLES
  view,          \* which view this page load initialised
  toasts,        \* children of the toast container, newest first
  uncaught,      \* an error escaped a handler (unhandled rejection)
  users, filtered, page, sortKey, sortDir,   \* closure state of initUsers
  q,             \* q.value
  countEl, pageInfo, prevDisabled, nextDisabled, tableRows, \* the rendered DOM
  usersReq,      \* GET /api/users: "pending" or "done"
  attIssued,     \* number of load() calls so far; call n made request n
  attPending,    \* the requests of load() still in flight
  attShown,      \* the request whose response wrote the table body last
  tbody,         \* recordsBody
  nameEl, emailEl, proxyEl, salaryEl,   \* values of the register form fields
  imgEl,         \* imgEl.files[0], Undef when no file is selected
  previewHidden, \* preview has class hidden (noprev has it exactly when not)
  regDisabled, regText,                 \* btnRegister.disabled / textContent
  regReq,        \* POST /register in flight, with its form data
  markDisabled,  \* btnMark.disabled
  pre,           \* attResult
  markPc,        \* where the btnMark handler waits: "idle", "post", "get"
  markLog,       \* the requests the current / last btnMark click made
  healthReq,     \* GET /health: "pending" or "done"
  healthDiv      \* the health line

usersVars == <<users, filtered, page, sortKey, sortDir, q, countEl, pageInfo,
               prevDisabled, nextDisabled, tableRows, usersReq>>

attVars == <<attIssued, attPending, attShown, tbody>>

regVars == <<nameEl, emailEl, proxyEl, salaryEl, imgEl, previewHidden, regDisabled,
             regText, regReq>>

dashVars == <<markDisabled, pre, markPc, markLog, healthReq, healthDiv>>

vars == <<view, toasts, uncaught, usersVars, attVars, regVars, dashVars>>

Views == {"users", "attendance", "register", "dashboard"}

\* ---------------------------------------------------------------- toasts
Toast(msg, detail, type) == [msg |-> msg, detail |-> detail, type |-> type]

\* toastContainer.prepend(div)
pushToast(ts, msg, detail, type) == <<Toast(msg, detail, type)>> \o ts

CanToast == Len(toasts) < MaxToasts

RemoveAt(s, i) == SubSeq(s, 1, i - 1) \o SubSeq(s, i + 1, Len(s))

\* the ttl timer of a toast fires, or its Dismiss is clicked
DismissToast ==
  /\ \E i \in 1..Len(toasts) : toasts' = RemoveAt(toasts, i)
  /\ UNCHANGED <<view, uncaught, usersVars, attVars, regVars, dashVars>>

\* ---------------------------------------------------------------- users view
\* render(): filter, sort, clamp the page, redraw pager and table
render(us, qv, k, dir, p) ==
  LET f == sort(filter(us, qv), k, dir)
      pages == Pages(Len(f))
      np == ClampPage(p, pages)
  IN [filtered |-> f, page |-> np, pages |-> pages,
      prevDisabled |-> (np <= 1), nextDisabled |-> (np >= pages),
      rows |-> [i \in 1..Len(Slice(f, np)) |-> Row(Slice(f, np)[i])]]

Rendered(us, qv, k, dir, p) ==
  \E r \in {render(us, qv, k, dir, p)} :
     /\ filtered' = r.filtered
     /\ page' = r.page
     /\ countEl' = Len(r.filtered)
     /\ pageInfo' = <<r.page, r.pages>>
     /\ prevDisabled' = r.prevDisabled
     /\ nextDisabled' = r.nextDisabled
     /\ tableRows' = r.rows

IsRendered == pageInfo # <<>>

\* a header click that keeps the direction when the column changes
HeaderSortKeepDir(k, key, dir) ==
  IF key = k THEN <<k, IF dir = "asc" THEN "desc" ELSE "asc">>
  ELSE <<k, dir>>

\* the sort state after a click on the header of column k
HeaderSort(k, key, dir) ==
  IF key = k THEN <<k, IF dir = "asc" THEN "desc" ELSE "asc">>
  ELSE <<k, "asc">>

HeaderClick(k) ==
  /\ view = "users" /\ IsRendered
  /\ sortKey' = HeaderSort(k, sortKey, sortDir)[1]
  /\ sortDir' = HeaderSort(k, sortKey, sortDir)[2]
  /\ Rendered(users, q, sortKey', sortDir', page)
  /\ UNCHANGED <<view, attVars, regVars, dashVars, toasts, uncaught, users, q, usersReq>>

PrevClick ==
  /\ view = "users" /\ ~prevDisabled
  /\ Rendered(users, q, sortKey, sortDir, Max(1, page - 1))
  /\ UNCHANGED <<view, attVars, regVars, dashVars, toasts, uncaught, users, sortKey, sortDir, q, usersReq>>

NextClick ==
  /\ view = "users" /\ ~nextDisabled
  /\ Rendered(users, q, sortKey, sortDir, page + 1)
  /\ UNCHANGED <<view, attVars, regVars, dashVars, toasts, uncaught, users, sortKey, sortDir, q, usersReq>>

SearchInput(s) ==
  /\ view = "users"
  /\ q' = s
  /\ Rendered(users, s, sortKey, sortDir, 1)
  /\ UNCHANGED <<view, attVars, regVars, dashVars, toasts, uncaught, users, sortKey, sortDir, usersReq>>

UserResponses == BadResponses \cup {OkArray(l) : l \in UserLists}

\* Array.isArray(json) ? json : []
usersOf(val) == IF val.t = "array" THEN val.arr ELSE <<>>

UsersLoaded(res) ==
  /\ view = "users" /\ usersReq = "pending"
  /\ apiGET(res).ok
  /\ usersReq' = "done"
  /\ users' = usersOf(apiGET(res).val)
  /\ Rendered(users', q, sortKey, sortDir, page)
  /\ UNCHANGED <<view, attVars, regVars, dashVars, toasts, uncaught, sortKey, sortDir, q>>

UsersFailed(res) ==
  /\ view = "users" /\ usersReq = "pending"
  /\ ~apiGET(res).ok
  /\ CanToast
  /\ usersReq' = "done"
  /\ toasts' = pushToast(toasts, "Failed to load users: ", apiGET(res).msg, "error")
  /\ users' = <<>>
  /\ Rendered(users', q, sortKey, sortDir, page)
  /\ UNCHANGED <<view, attVars, regVars, dashVars, uncaught, sortKey, sortDir, q>>

UsersInit ==
  /\ users = <<>> /\ filtered = <<>> /\ page = 1
  /\ sortKey = "user_id" /\ sortDir = "asc"
  /\ q = <<>> /\ countEl = 0 /\ pageInfo = <<>>
  /\ prevDisabled \in (IF view = "users" THEN BOOLEAN ELSE {FALSE})
  /\ nextDisabled \in (IF view = "users" THEN BOOLEAN ELSE {FALSE})
  /\ tableRows = <<>>
  /\ usersReq = "pending"

UsersNext ==
  \/ \E k \in SortKeys : HeaderClick(k)
  \/ PrevClick
  \/ NextClick
  \/ \E s \in SearchStrings : SearchInput(s)
  \/ \E res \in UserResponses : UsersLoaded(res)
  \/ \E res \in UserResponses : UsersFailed(res)

\* ---------------------------------------------------------------- attendance view
\* an attendance record of GET /api/attendance
AttPool == {[name |-> "Ann", timestamp |-> "2024-01-01T09:00"],
            [name |-> "Bob", timestamp |-> "soon"]}

AttResponses == BadResponses \cup {OkArray(a) : a \in SeqsUpTo(AttPool, MaxRows)}

\* new Date(d).toLocaleString()
fmt(d) == IF d = "2024-01-01T09:00" THEN "1/1/2024, 9:00:00 AM" ELSE "Invalid Date"

Body(kind, rows, msg) == [kind |-> kind, rows |-> rows, msg |-> msg]

AttRow(r) == <<r.name, r.timestamp, fmt(r.timestamp)>>

\* a load() that takes the empty array for a non-array
loadTableNoEmpty(r) ==
  IF ~r.ok THEN Body("error", <<>>, r.msg)
  ELSE IF r.val.t # "array" \/ Len(r.val.arr) = 0 THEN Body("nodata", <<>>, "")
  ELSE Body("rows", [i \in 1..Len(r.val.arr) |-> AttRow(r.val.arr[i])], "")

\* the table body load() writes once apiGET has settled with r
loadTable(r) ==
  IF ~r.ok THEN Body("error", <<>>, r.msg)
  ELSE IF r.val.t # "array" THEN Body("nodata", <<>>, "")
  ELSE IF Len(r.val.arr) = 0 THEN Body("norecords", <<>>, "")
  ELSE Body("rows", [i \in 1..Len(r.val.arr) |-> AttRow(r.val.arr[i])], "")

\* whether load() pushes its error toast once apiGET has settled with r
loadToasts(r) == ~r.ok

\* applyBtn.disabled while load() runs: load() never sets it
applyDisabled == FALSE

\* click on Apply: load() up to its await.  The query string built from the filter mode
\* and the dates goes out with the request and is read by no handler afterwards, so it
\* is not part of the state.
ApplyClick ==
  /\ view = "attendance" /\ ~applyDisabled
  /\ attIssued < MaxLoads
  /\ attIssued' = attIssued + 1
  /\ attPending' = attPending \cup {attIssued + 1}
  /\ tbody' = Body("loading", <<>>, "")
  /\ UNCHANGED <<view, toasts, uncaught, usersVars, regVars, dashVars, attShown>>

\* the response of request id arrives: load() from its await to its end
AttResponse(id, res) ==
  /\ view = "attendance" /\ id \in attPending
  /\ loadToasts(apiGET(res)) => CanToast
  /\ attPending' = attPending \ {id}
  /\ attShown' = id
  /\ tbody' = loadTable(apiGET(res))
  /\ toasts' = IF loadToasts(apiGET(res))
               THEN pushToast(toasts, "Failed to load attendance: ", apiGET(res).msg, "error")
               ELSE toasts
  /\ UNCHANGED <<view, uncaught, usersVars, regVars, dashVars, attIssued>>

AttInit ==
  /\ attIssued = 0 /\ attPending = {} /\ attShown = 0
  /\ tbody = Body("initial", <<>>, "")

AttNext ==
  \/ ApplyClick
  \/ \E id \in 1..MaxLoads, res \in AttResponses : AttResponse(id, res)

\* ---------------------------------------------------------------- register view
NameValues == {<<>>, <<" ">>, <<" ", "A">>}
FieldValues == {<<>>, <<"b", " ">>}
Files == {<<"face.png">>}

SetName(v) ==
  /\ view = "register" /\ nameEl' = v
  /\ UNCHANGED <<view, toasts, uncaught, usersVars, attVars, dashVars, emailEl, proxyEl,
                 salaryEl, imgEl, previewHidden, regDisabled, regText, regReq>>

SetEmail(v) ==
  /\ view = "register" /\ emailEl' = v
  /\ UNCHANGED <<view, toasts, uncaught, usersVars, attVars, dashVars, nameEl, proxyEl,
                 salaryEl, imgEl, previewHidden, regDisabled, regText, regReq>>

SetProxy(v) ==
  /\ view = "register" /\ proxyEl' = v
  /\ UNCHANGED <<view, toasts, uncaught, usersVars, attVars, dashVars, nameEl, emailEl,
                 salaryEl, imgEl, previewHidden, regDisabled, regText, regReq>>

SetSalary(v) ==
  /\ view = "register" /\ salaryEl' = v
  /\ UNCHANGED <<view, toasts, uncaught, usersVars, attVars, dashVars, nameEl, emailEl,
                 proxyEl, imgEl, previewHidden, regDisabled, regText, regReq>>

\* change event of the file input: f is the new files[0]
ImageChange(f) ==
  /\ view = "register" /\ f # imgEl
  /\ imgEl' = f
  /\ previewHidden' = (f = Undef)
  /\ UNCHANGED <<view, toasts, uncaught, usersVars, attVars, dashVars, nameEl, emailEl,
                 proxyEl, salaryEl, regDisabled, regText, regReq>>

\* a validation that tests the raw name
validateNoTrim(name, file) ==
  IF name = <<>> THEN "Name is required"
  ELSE IF file = Undef THEN "Upload a face image"
  ELSE ""

\* the two early returns of the click handler: "" when the form may be sent
validate(name, file) ==
  IF trim(name) = <<>> THEN "Name is required"
  ELSE IF file = Undef THEN "Upload a face image"
  ELSE ""

\* if(el.value) fd.append(key, el.value.trim())
fdField(v) == IF v # <<>> THEN trim(v) ELSE Undef

formData(name, email, proxy, salary, file) ==
  [name |-> trim(name), email |-> fdField(email), proxy |-> fdField(proxy),
   salary |-> fdField(salary), image |-> file]

NoForm == [name |-> <<>>, email |-> Undef, proxy |-> Undef, salary |-> Undef, image |-> Undef]
Idle == [state |-> "idle", fd |-> NoForm]
Pending(fd) == [state |-> "pending", fd |-> fd]

\* click on Register with a form that fails validation
RegisterInvalid ==
  /\ view = "register" /\ ~regDisabled
  /\ validate(nameEl, imgEl) # ""
  /\ CanToast
  /\ toasts' = pushToast(toasts, validate(nameEl, imgEl), "", "error")
  /\ UNCHANGED <<view, uncaught, usersVars, attVars, dashVars, regVars>>

\* click on Register with a valid form: the handler up to its await
RegisterSubmit ==
  /\ view = "register" /\ ~regDisabled
  /\ validate(nameEl, imgEl) = ""
  /\ regReq' = Pending(formData(nameEl, emailEl, proxyEl, salaryEl, imgEl))
  /\ regDisabled' = TRUE /\ regText' = "Uploading..."
  /\ UNCHANGED <<view, toasts, uncaught, usersVars, attVars, dashVars, nameEl, emailEl,
                 proxyEl, salaryEl, imgEl, previewHidden>>

RegResponses == BadResponses \cup {
  Http(TRUE, "200 OK", "application/json", JObject([NoObj EXCEPT !.status = "success"])),
  Http(TRUE, "200 OK", "application/json",
       JObject([NoObj EXCEPT !.status = "error", !.message = "No face found"])) }

\* data && data.status === 'success'
regSuccess(r) == r.ok /\ r.val.t = "object" /\ r.val.obj.status = "success"

\* the toast of the handler once apiPOST has settled with r
regToast(r) ==
  IF ~r.ok THEN Toast("Register failed: ", r.msg, "error")
  ELSE IF regSuccess(r) THEN Toast("Registered successfully", "", "info")
  ELSE IF r.val.t = "object" /\ r.val.obj.message # NoValue
       THEN Toast("Registration error: ", r.val.obj.message, "error")
       ELSE Toast("Registration error: ", "Unknown server response", "error")

\* the response of POST /register arrives: the handler from its await to its end
RegisterResponse(res) ==
  /\ view = "register" /\ regReq.state = "pending"
  /\ CanToast
  /\ toasts' = <<regToast(apiPOST(res))>> \o toasts
  /\ IF regSuccess(apiPOST(res))
     THEN /\ nameEl' = <<>> /\ emailEl' = <<>> /\ proxyEl' = <<>> /\ salaryEl' = <<>>
          /\ imgEl' = Undef /\ previewHidden' = TRUE
     ELSE UNCHANGED <<nameEl, emailEl, proxyEl, salaryEl, imgEl, previewHidden>>
  /\ regReq' = Idle
  /\ regDisabled' = FALSE /\ regText' = "Register"
  /\ UNCHANGED <<view, uncaught, usersVars, attVars, dashVars>>

RegInit ==
  /\ nameEl = <<>> /\ emailEl = <<>> /\ proxyEl = <<>> /\ salaryEl = <<>>
  /\ imgEl = Undef /\ previewHidden = TRUE
  /\ regDisabled = FALSE /\ regText = "Register"
  /\ regReq = Idle

RegNext ==
  \/ \E v \in NameValues : SetName(v)
  \/ \E v \in FieldValues : SetEmail(v)
  \/ \E v \in FieldValues : SetProxy(v)
  \/ \E v \in FieldValues : SetSalary(v)
  \/ \E f \in Files \cup {Undef} : ImageChange(f)
  \/ RegisterInvalid
  \/ RegisterSubmit
  \/ \E res \in RegResponses : RegisterResponse(res)


\* ---------------------------------------------------------------- dashboard view
Line(kind, when) == [kind |-> kind, when |-> when]

HealthResponses == BadResponses \cup {
  Http(TRUE, "200 OK", "application/json",
       JObject([NoObj EXCEPT !.timestamp = "2024-01-01T09:00"])) }

\* j.timestamp: a TypeError when j is null, undefined when j has no such property
timestampOf(j) == IF j.t = "object" THEN j.obj.timestamp ELSE NoValue

\* a chain without its .catch: a rejection or a throw in the callback escapes
healthChainNoCatch(r) ==
  IF r.ok /\ r.val.t # "null"
  THEN [div |-> Line("healthy", fmt(timestampOf(r.val))), uncaught |-> FALSE]
  ELSE [div |-> Line("initial", ""), uncaught |-> TRUE]

\* apiGET('/health').then(show).catch(unknown): the line shown, and whether an error escapes
healthChain(r) ==
  IF r.ok /\ r.val.t # "null"
  THEN [div |-> Line("healthy", fmt(timestampOf(r.val))), uncaught |-> FALSE]
  ELSE [div |-> Line("unknown", ""), uncaught |-> FALSE]

HealthResponse(res) ==
  /\ view = "dashboard" /\ healthReq = "pending"
  /\ healthReq' = "done"
  /\ healthDiv' = healthChain(apiGET(res)).div
  /\ uncaught' = (uncaught \/ healthChain(apiGET(res)).uncaught)
  /\ UNCHANGED <<view, toasts, usersVars, attVars, regVars, markDisabled, pre, markPc,
                 markLog>>

Req(method, outcome) == [method |-> method, outcome |-> outcome]

Pre(kind, val, msg) == [kind |-> kind, val |-> val, msg |-> msg]

SetLast(log, outcome) == [log EXCEPT ![Len(log)].outcome = outcome]

\* click on Mark attendance: the handler up to the await of the POST
MarkClick ==
  /\ view = "dashboard" /\ ~markDisabled
  /\ markDisabled' = TRUE
  /\ pre' = Pre("processing", JNull, "")
  /\ markPc' = "post"
  /\ markLog' = <<Req("POST", "pending")>>
  /\ UNCHANGED <<view, toasts, uncaught, usersVars, attVars, regVars, healthReq, healthDiv>>

\* the rest of the handler once result is known
MarkDone(r, log) ==
  /\ CanToast
  /\ pre' = Pre("json", r.val, "")
  /\ toasts' = pushToast(toasts, "Attendance processed", "", "info")
  /\ markDisabled' = FALSE
  /\ markPc' = "idle"
  /\ markLog' = log

\* the outer catch and the finally
MarkFailed(r, log) ==
  /\ CanToast
  /\ pre' = Pre("error", JNull, r.msg)
  /\ toasts' = pushToast(toasts, "Attendance failed: ", r.msg, "error")
  /\ markDisabled' = FALSE
  /\ markPc' = "idle"
  /\ markLog' = log

MarkResponses == BadResponses \cup {
  Http(TRUE, "200 OK", "application/json", JObject([NoObj EXCEPT !.status = "marked"])) }

\* a handler that issues the GET whatever the POST did
fallsBackAlways(r) == TRUE

\* try { result = await apiPOST } catch { result = await apiGET }: TRUE when the GET is issued
fallsBack(r) == ~r.ok

\* the POST settles
MarkPostResponse(res) ==
  /\ view = "dashboard" /\ markPc = "post"
  /\ IF fallsBack(apiPOST(res))
     THEN /\ markPc' = "get"
          /\ markLog' = Append(SetLast(markLog, IF apiPOST(res).ok THEN "ok" ELSE "failed"),
                               Req("GET", "pending"))
          /\ UNCHANGED <<toasts, pre, markDisabled>>
     ELSE MarkDone(apiPOST(res), SetLast(markLog, "ok"))
  /\ UNCHANGED <<view, uncaught, usersVars, attVars, regVars, healthReq, healthDiv>>

\* the fallback GET settles
MarkGetResponse(res) ==
  /\ view = "dashboard" /\ markPc = "get"
  /\ IF apiGET(res).ok
     THEN MarkDone(apiGET(res), SetLast(markLog, "ok"))
     ELSE MarkFailed(apiGET(res), SetLast(markLog, "failed"))
  /\ UNCHANGED <<view, uncaught, usersVars, attVars, regVars, healthReq, healthDiv>>

DashInit ==
  /\ markDisabled = FALSE /\ pre = Pre("initial", JNull, "")
  /\ markPc = "idle" /\ markLog = <<>>
  /\ healthReq = "pending" /\ healthDiv = Line("initial", "")

DashNext ==
  \/ \E res \in HealthResponses : HealthResponse(res)
  \/ MarkClick
  \/ \E res \in MarkResponses : MarkPostResponse(res)
  \/ \E res \in MarkResponses : MarkGetResponse(res)

\* ---------------------------------------------------------------- system
Init ==
  /\ view \in Views
  /\ toasts = <<>>
  /\ uncaught = FALSE
  /\ UsersInit
  /\ AttInit
  /\ RegInit
  /\ DashInit

Next ==
  \/ DismissToast
  \/ UsersNext
  \/ AttNext
  \/ RegNext
  \/ DashNext

Spec == Init /\ [][Next]_vars

\* ---------------------------------------------------------------- properties
\* characters equal up to case
SameLetter(a, b) == a = b \/ {a, b} = {"A", "a"} \/ {a, b} = {"B", "b"}

\* n occurs in h as a contiguous run, compared up to case
OccursIn(n, h) ==
  \E i \in 0..(Len(h) - Len(n)) : \A j \in 1..Len(n) : SameLetter(h[i + j], n[j])

FieldsOf(u) == {String(u.user_id), u.name, OrEmpty(u.email), OrEmpty(u.proxy)}

Count(f, u) == Cardinality({i \in DOMAIN f : f[i] = u})

\* the least P with P * perPage >= n, and at least 1
LastPage(n) == CHOOSE P \in 1..(n + 1) : P * perPage >= n /\ (P = 1 \/ (P - 1) * perPage < n)

FilteredCount == Cardinality({i \in DOMAIN users : OccursIn(q, Haystack(users[i]))})

\* C1: the page index always lies in 1 .. max(1, ceil(filteredCount / 12)), filteredCount
\* being the number of users that match the current search.
C1_PageInRange == page >= 1 /\ page <= LastPage(FilteredCount)

\* a search that shrank a three-page list to fewer pages, and the last page reached by Next
C1_Witness ==
  \/ IsRendered /\ Len(users) > 2 * perPage /\ q # <<>> /\ LastPage(FilteredCount) < 3
  \/ IsRendered /\ page = 3 /\ nextDisabled

\* C7: the filtered list holds exactly the users in whose id+name+email+proxy the search
\* string occurs up to case (all of them when it is empty), and so every user with the
\* search string inside one of the four fields.
C7_Filter ==
  IsRendered =>
    /\ \A i \in DOMAIN users :
         Count(filtered, users[i]) =
           IF OccursIn(q, Haystack(users[i])) THEN Count(users, users[i]) ELSE 0
    /\ \A i \in DOMAIN filtered : Count(users, filtered[i]) > 0
    /\ \A i \in DOMAIN users :
         (\E f \in FieldsOf(users[i]) : OccursIn(q, f)) => Count(filtered, users[i]) > 0
    /\ q = <<>> => Len(filtered) = Len(users)

\* an upper-case search that keeps a user spelt in lower case and drops another user
C7_Witness ==
  /\ IsRendered /\ q = <<"A">>
  /\ \E i \in DOMAIN filtered : \A j \in DOMAIN Haystack(filtered[i]) : Haystack(filtered[i])[j] # "A"
  /\ Len(filtered) < Len(users)

RECURSIVE PagesConcat(_, _)
PagesConcat(f, p) == IF p = 0 THEN <<>> ELSE PagesConcat(f, p - 1) \o Slice(f, p)

\* C10: the pager shows page p of P = max(1, ceil(n/12)); the table shows the filtered and
\* sorted users at positions (p-1)*12+1 .. min(p*12, n): 12 rows before the last page and
\* n - 12*(P-1) on it; the pages partition the list; Prev is disabled exactly on page 1
\* and Next exactly on page P.
C10_Paging ==
  IsRendered =>
    LET n == Len(filtered)
        P == LastPage(n)
    IN /\ pageInfo = <<page, P>>
       /\ countEl = n
       /\ Len(tableRows) = (IF page < P THEN perPage ELSE n - perPage * (P - 1))
       /\ \A i \in DOMAIN tableRows : tableRows[i] = Row(filtered[(page - 1) * perPage + i])
       /\ PagesConcat(filtered, P) = filtered
       /\ prevDisabled = (page = 1)
       /\ nextDisabled = (page = P)

\* 13 users and no search term, second page: one row, "Page 2 / 2"
C10_Witness ==
  /\ Len(users) = perPage + 1 /\ q = <<>>
  /\ pageInfo = <<2, 2>> /\ Len(tableRows) = 1 /\ nextDisabled /\ ~prevDisabled

Flip(dir) == IF dir = "asc" THEN "desc" ELSE "asc"

\* no two rows of f with different values in column k stand against direction dir
Ordered(f, k, dir) ==
  \A i, j \in DOMAIN f :
    i < j => IF dir = "asc" THEN ~KeyLess(f[j], f[i], k) ELSE ~KeyLess(f[i], f[j], k)

C6_Step ==
  /\ <<sortKey, sortDir>>' # <<sortKey, sortDir>> => \E k \in SortKeys : HeaderClick(k)
  /\ \A k \in SortKeys :
       HeaderClick(k) =>
         IF k = sortKey
         THEN /\ sortKey' = sortKey /\ sortDir' = Flip(sortDir)
              /\ Ordered(filtered, sortKey, sortDir)
              /\ Ordered(filtered', sortKey, Flip(sortDir))
              /\ \A i \in DOMAIN filtered : Count(filtered', filtered[i]) = Count(filtered, filtered[i])
         ELSE sortKey' = k /\ sortDir' = "asc"
  /\ (PrevClick \/ NextClick \/ \E s \in SearchStrings : SearchInput(s))
       => <<sortKey, sortDir>>' = <<sortKey, sortDir>>

\* C6: the sort state starts at (user_id, asc) and changes only on header clicks: a click
\* on the active column flips the direction and keeps the column, so rows with different
\* key values swap their order; a click on the other column selects it, ascending;
\* search input and Prev / Next leave the sort state alone.
C6_Sort == (sortKey = "user_id" /\ sortDir = "asc") /\ [][C6_Step]_vars

\* sorted by name, descending, with two rows of different names shown
C6_Witness ==
  /\ sortKey = "name" /\ sortDir = "desc"
  /\ \E i, j \in DOMAIN filtered : KeyLess(filtered[i], filtered[j], "name")

\* fetch rejected, the status was not ok, or a JSON body did not parse
Failed(res) ==
  \/ ~res.net
  \/ ~res.ok
  \/ res.ct \in {"application/json", "application/json; charset=utf-8"} /\ res.body.t = "malformed"

\* the answer is a JSON array
IsArray(res) == res.ct \in {"application/json", "application/json; charset=utf-8"} /\ res.body.t = "array"

\* this step prepended exactly one toast of the given type and message
Toasted(msg, type) ==
  /\ Len(toasts') = Len(toasts) + 1
  /\ Tail(toasts') = toasts
  /\ Head(toasts').msg = msg /\ Head(toasts').type = type

\* C2: each button that starts a request (Register, Mark attendance, Apply) is disabled
\* while its request is in flight, so at most one request of each is in flight.
C2_OneInFlight ==
  /\ regReq.state = "pending" => regDisabled
  /\ markPc # "idle" => markDisabled
  /\ attPending # {} => applyDisabled
  /\ Cardinality(attPending) <= 1

\* C3: once no attendance request is in flight, the table body shows the outcome of the
\* request issued last.
C3_LatestShown == (attIssued > 0 /\ attPending = {}) => attShown = attIssued

C8_Step ==
  \A id \in 1..MaxLoads, res \in AttResponses :
    AttResponse(id, res) =>
      IF Failed(res)
      THEN /\ tbody'.kind = "error"
           /\ Toasted("Failed to load attendance: ", "error")
      ELSE /\ toasts' = toasts
           /\ IF ~IsArray(res) THEN tbody' = Body("nodata", <<>>, "")
              ELSE IF res.body.arr = <<>> THEN tbody' = Body("norecords", <<>>, "")
              ELSE /\ tbody'.kind = "rows"
                   /\ Len(tbody'.rows) = Len(res.body.arr)
                   /\ \A i \in DOMAIN res.body.arr :
                        /\ tbody'.rows[i][1] = res.body.arr[i].name
                        /\ tbody'.rows[i][2] = res.body.arr[i].timestamp

Shape(log) == [i \in DOMAIN log |-> <<log[i].method, log[i].outcome>>]

C4_Log ==
  /\ markPc = "idle" =>
       /\ Shape(markLog) \in {<<>>, << <<"POST", "ok">> >>,
                              << <<"POST", "failed">>, <<"GET", "ok">> >>,
                              << <<"POST", "failed">>, <<"GET", "failed">> >>}
       /\ ~markDisabled
  /\ markPc = "post" => Shape(markLog) = << <<"POST", "pending">> >> /\ markDisabled
  /\ markPc = "get" =>
       Shape(markLog) = << <<"POST", "failed">>, <<"GET", "pending">> >> /\ markDisabled

C4_Step ==
  /\ (markPc = "idle" /\ markPc' # "idle") => Shape(markLog') = << <<"POST", "pending">> >>
  /\ (markPc # "idle" /\ markPc' = "idle") =>
       /\ ~markDisabled'
       /\ IF markLog'[Len(markLog')].outcome = "ok"
          THEN pre'.kind = "json" /\ Toasted("Attendance processed", "info")
          ELSE /\ Shape(markLog') = << <<"POST", "failed">>, <<"GET", "failed">> >>
               /\ pre'.kind = "error" /\ Toasted("Attendance failed: ", "error")
               /\ pre'.msg = Head(toasts').detail

\* C4: a click on Mark attendance issues one POST first and a GET only after that POST
\* failed, at most once, and nothing more; a successful POST or GET shows the result as
\* JSON with an 'Attendance processed' toast, two failures show the error message with
\* an 'Attendance failed' error toast; the button ends enabled.
C4_Mark == []C4_Log /\ [][C4_Step]_vars

\* the POST failed and the fallback GET succeeded
C4_Witness ==
  /\ markPc = "idle" /\ pre.kind = "json" /\ ~markDisabled
  /\ Shape(markLog) = << <<"POST", "failed">>, <<"GET", "ok">> >>

\* the name holds nothing but blanks
NameEmpty == \A i \in DOMAIN nameEl : nameEl[i] = " "

NoFile == imgEl = Undef

RegisterClick == RegisterInvalid \/ RegisterSubmit

C5_Common ==
  /\ (NameEmpty \/ NoFile) =>
       /\ UNCHANGED regVars
       /\ Len(toasts') = Len(toasts) + 1 /\ Tail(toasts') = toasts
       /\ Head(toasts').type = "error"
       /\ NameEmpty => Head(toasts').msg = "Name is required"
  /\ regReq'.state = "pending" => ~NameEmpty /\ ~NoFile

\* C5 as stated: a click on Register with a blank name or without a file makes no request,
\* pushes an error toast -- 'Name is required' when the name is blank, 'Upload a face
\* image' when no file is selected -- and leaves the form, the preview and the button
\* alone; a request is sent only with a non-blank name and a file.
C5_AsStated ==
  [][RegisterClick =>
       /\ C5_Common
       /\ NoFile => Head(toasts').msg = "Upload a face image"]_vars

\* C5, amended: as stated, except that 'Upload a face image' is the toast when no file is
\* selected and the name is not blank; with a blank name the toast is 'Name is required'
\* whether a file is selected or not.
C5_Validation ==
  [][RegisterClick =>
       /\ C5_Common
       /\ (NoFile /\ ~NameEmpty) => Head(toasts').msg = "Upload a face image"]_vars

\* the toast 'Upload a face image' is shown, nothing was sent, the form still holds the name
C5_Witness ==
  /\ toasts # <<>> /\ Head(toasts).msg = "Upload a face image"
  /\ regReq.state = "idle" /\ ~regDisabled /\ regText = "Register" /\ ~NameEmpty /\ NoFile

\* a step in which a handler meets a failed request, and the region it should report in
HealthFails == \E res \in HealthResponses : HealthResponse(res) /\ Failed(res)
UsersFails == \E res \in UserResponses : UsersFailed(res) /\ Failed(res)
RegisterFails == \E res \in RegResponses : RegisterResponse(res) /\ Failed(res)
AttFails == \E id \in 1..MaxLoads, res \in AttResponses : AttResponse(id, res) /\ Failed(res)
MarkPostFails == \E res \in MarkResponses : MarkPostResponse(res) /\ Failed(res)
MarkGetFails == \E res \in MarkResponses : MarkGetResponse(res) /\ Failed(res)

\* the register form shows something else than its idle state after the step
RegisterInline ==
  \/ <<nameEl, emailEl, proxyEl, salaryEl, imgEl, previewHidden>>'
       # <<nameEl, emailEl, proxyEl, salaryEl, imgEl, previewHidden>>
  \/ regText' # "Register"

ErrorToast == Len(toasts') = Len(toasts) + 1 /\ Tail(toasts') = toasts /\ Head(toasts').type = "error"

\* C9 as stated: every network failure of every action is caught by the action and shown
\* both as a toast and as inline text in the action's region; none escapes its handler.
C9_AsStated ==
  /\ []~uncaught
  /\ [][/\ HealthFails => ErrorToast /\ healthDiv'.kind = "unknown"
        /\ UsersFails => ErrorToast /\ tableRows' = <<>> /\ countEl' = 0
        /\ RegisterFails => ErrorToast /\ RegisterInline
        /\ AttFails => ErrorToast /\ tbody'.kind = "error"
        /\ MarkPostFails => ErrorToast /\ pre'.kind = "error"
        /\ MarkGetFails => ErrorToast /\ pre'.kind = "error"]_vars

\* C9, amended: every network failure of every action is caught by the action and none
\* escapes its handler; attendance load and mark attendance (once its fallback GET has
\* failed too) show an error toast and inline error text, users load shows an error toast
\* and an empty table, register shows an error toast only, the health check shows the
\* inline 'unknown' line and no toast, and a failed mark-attendance POST shows nothing
\* yet: the handler goes on to the GET.
C9_Failures ==
  /\ []~uncaught
  /\ [][/\ HealthFails => toasts' = toasts /\ healthDiv'.kind = "unknown"
        /\ UsersFails => ErrorToast /\ tableRows' = <<>> /\ countEl' = 0
        /\ RegisterFails => /\ ErrorToast /\ regText' = "Register" /\ ~regDisabled'
                            /\ UNCHANGED <<nameEl, emailEl, proxyEl, salaryEl, imgEl, previewHidden>>
        /\ AttFails => ErrorToast /\ tbody'.kind = "error"
        /\ MarkPostFails => /\ toasts' = toasts /\ pre' = pre /\ markPc' = "get"
        /\ MarkGetFails => ErrorToast /\ pre'.kind = "error"]_vars

\* the health check failed: the 'unknown' line and no toast
C9_Witness == healthReq = "done" /\ healthDiv.kind = "unknown" /\ toasts = <<>>

====
